---- MODULE Spec2Model ----
(***************************************************************************)
(* Model of sprit.py: extracting the sprites of a TexturePacker atlas and  *)
(* rebuilding the atlas from the sprite files.                             *)
(*                                                                         *)
(* An image is a record [mode, w, h, px] with px a function from <<i, j>>  *)
(* (column, row, 0-based) to a pixel, a tuple of channel values.  A path   *)
(* is a record [anchor, parts] as pathlib keeps it.  The filesystem fs is  *)
(* a function from the paths of the existing files to their images.        *)
(***************************************************************************)
EXTENDS Integers, Sequences, FiniteSets, TLC

VARIABLES argv, character, call, todo, history, data, fs, pc, frames, size,
          atlas, canvas, idx, sprite, sprite_path, stdout, err

vars == <<argv, character, call, todo, history, data, fs, pc, frames, size,
          atlas, canvas, idx, sprite, sprite_path, stdout, err>>

\* ------------------------------------------------------------------------
\* Bounds of the model
\* ------------------------------------------------------------------------
MaxFrames == 2
MaxNameLen == 3
MaxPrompts == 2

\* ------------------------------------------------------------------------
\* Paths (pathlib.PurePosixPath)
\* ------------------------------------------------------------------------
RECURSIVE FirstSlash(_, _)
FirstSlash(s, i) ==
    IF i > Len(s) THEN i
    ELSE IF s[i] = "/" THEN i ELSE FirstSlash(s, i + 1)

\* The components of a path string: empty and "." components are dropped.
RECURSIVE SplitParts(_)
SplitParts(s) ==
    IF s = <<>> THEN <<>>
    ELSE LET i == FirstSlash(s, 1)
             head == SubSeq(s, 1, i - 1)
             rest == SubSeq(s, i + 1, Len(s))
         IN  (IF head \in {<<>>, <<".">>} THEN <<>> ELSE <<head>>)
                 \o SplitParts(rest)

\* Path(s)
Path(s) == [anchor |-> (s # <<>> /\ s[1] = "/"), parts |-> SplitParts(s)]

RECURSIVE JoinParts(_)
JoinParts(ps) ==
    IF ps = <<>> THEN <<>>
    ELSE IF Len(ps) = 1 THEN ps[1]
    ELSE ps[1] \o <<"/">> \o JoinParts(Tail(ps))

\* str(path)
PathStr(p) ==
    IF p.parts = <<>> THEN (IF p.anchor THEN <<"/">> ELSE <<".">>)
    ELSE (IF p.anchor THEN <<"/">> ELSE <<>>) \o JoinParts(p.parts)

\* base / target
PathJoin(base, target) ==
    IF target.anchor THEN target
    ELSE [anchor |-> base.anchor, parts |-> base.parts \o target.parts]

RECURSIVE LastDot(_, _)
LastDot(n, i) ==
    IF i = 0 THEN 0
    ELSE IF n[i] = "." THEN i ELSE LastDot(n, i - 1)

\* path.suffix: the final component's last dot and what follows it, unless
\* that dot starts or ends the component.
PathSuffix(p) ==
    IF p.parts = <<>> THEN <<>>
    ELSE LET n == p.parts[Len(p.parts)]
             i == LastDot(n, Len(n))
         IN  IF 1 < i /\ i < Len(n) THEN SubSeq(n, i, Len(n)) ELSE <<>>

\* A string is a sequence of tokens; only "/" and "." matter to pathlib.
DotPng == <<".", "png">>

build_sprite_path_always_png(base_dir, frame_name) ==
    PathJoin(base_dir, Path(PathStr(Path(frame_name)) \o DotPng))

build_sprite_path(base_dir, frame_name) ==
    LET rel == Path(frame_name)
        target == IF PathSuffix(rel) # <<>> THEN rel
                  ELSE Path(PathStr(rel) \o DotPng)
    IN  PathJoin(base_dir, target)

\* ------------------------------------------------------------------------
\* Images (PIL.Image)
\* ------------------------------------------------------------------------
Zero == <<0, 0, 0, 0>>

Grid(w, h) == (0 .. (w - 1)) \X (0 .. (h - 1))

\* Image.new("RGBA", (w, h), color)
ImageNew(w, h, color) ==
    [mode |-> "RGBA", w |-> w, h |-> h, px |-> [p \in Grid(w, h) |-> color]]

\* image.convert("RGBA"): an RGB image gets an opaque alpha channel.
ConvertRGBA(img) ==
    IF img.mode = "RGBA" THEN img
    ELSE [mode |-> "RGBA", w |-> img.w, h |-> img.h,
          px |-> [p \in Grid(img.w, img.h) |-> Append(img.px[p], 255)]]

ImageSize(img) == <<img.w, img.h>>

Crop_transposed(img, x, y, w, h) ==
    [mode |-> img.mode, w |-> w, h |-> h,
     px |-> [p \in Grid(w, h) |->
                IF y + p[1] < img.w /\ x + p[2] < img.h
                THEN img.px[<<y + p[1], x + p[2]>>] ELSE Zero]]

Crop_shifted(img, x, y, w, h) ==
    [mode |-> img.mode, w |-> w, h |-> h,
     px |-> [p \in Grid(w, h) |->
                IF p[1] < img.w /\ p[2] < img.h
                THEN img.px[<<p[1], p[2]>>] ELSE Zero]]

\* image.crop((x, y, x + w, y + h)): pixels outside the image are zero.
Crop(img, x, y, w, h) ==
    [mode |-> img.mode, w |-> w, h |-> h,
     px |-> [p \in Grid(w, h) |->
                IF x + p[1] < img.w /\ y + p[2] < img.h
                THEN img.px[<<x + p[1], y + p[2]>>] ELSE Zero]]

Resize_unchanged(img, w, h) == img

\* image.resize((w, h), NEAREST): the source pixel under the centre of each
\* destination pixel.
Resize(img, w, h) ==
    [mode |-> img.mode, w |-> w, h |-> h,
     px |-> [p \in Grid(w, h) |->
                img.px[<<((2 * p[1] + 1) * img.w) \div (2 * w),
                         ((2 * p[2] + 1) * img.h) \div (2 * h)>>]]]

InBox(p, x, y, w, h) ==
    /\ x <= p[1] /\ p[1] < x + w
    /\ y <= p[2] /\ p[2] < y + h

\* Alpha-masked variant: a transparent source pixel keeps the destination.
Paste_blend(dst, src, x, y) ==
    [dst EXCEPT !.px = [p \in DOMAIN dst.px |->
        IF InBox(p, x, y, src.w, src.h) /\ src.px[<<p[1] - x, p[2] - y>>][4] # 0
        THEN src.px[<<p[1] - x, p[2] - y>>] ELSE dst.px[p]]]

\* Variant that clears what lies outside the box.
Paste_clearing(dst, src, x, y) ==
    [dst EXCEPT !.px = [p \in DOMAIN dst.px |->
        IF InBox(p, x, y, src.w, src.h)
        THEN src.px[<<p[1] - x, p[2] - y>>] ELSE Zero]]

\* Variant that grows the destination to hold the whole box.
Paste_unclipped(dst, src, x, y) ==
    [dst EXCEPT !.w = IF x + src.w > dst.w THEN x + src.w ELSE dst.w,
                !.px = [p \in DOMAIN dst.px |->
        IF InBox(p, x, y, src.w, src.h)
        THEN src.px[<<p[1] - x, p[2] - y>>] ELSE dst.px[p]]]

\* dst.paste(src, box=(x, y)) without a mask: every channel of the part of
\* the box inside dst is overwritten.
Paste(dst, src, x, y) ==
    [dst EXCEPT !.px = [p \in DOMAIN dst.px |->
        IF InBox(p, x, y, src.w, src.h)
        THEN src.px[<<p[1] - x, p[2] - y>>] ELSE dst.px[p]]]

\* ------------------------------------------------------------------------
\* Optional values and JSON objects
\* ------------------------------------------------------------------------
\* None is the empty tuple and a value v is <<v>>.
NoValue == <<>>
Some(v) == <<v>>

\* Python truthiness of an optional string: None and "" are false.
Truthy(o) == o # NoValue /\ o[1] # <<>>

\* d.get(k, default)
Get(d, k, default) == IF k \in DOMAIN d THEN d[k] ELSE default

load_metadata_default_one(d) ==
    LET meta_size == Get(Get(d, "meta", <<>>), "size", <<>>)
    IN  [frames |-> Get(d, "frames", <<>>),
         size |-> <<Get(meta_size, "w", 1), Get(meta_size, "h", 1)>>]

\* load_metadata: the frame list and (width, height), zero where absent.
load_metadata(d) ==
    LET meta_size == Get(Get(d, "meta", <<>>), "size", <<>>)
    IN  [frames |-> Get(d, "frames", <<>>),
         size |-> <<Get(meta_size, "w", 0), Get(meta_size, "h", 0)>>]

\* The value of a local variable that holds no image.
NoImage == [mode |-> "none", w |-> 0, h |-> 0, px |-> <<>>]

NoErr == [type |-> "none", path |-> <<>>]
FileNotFound(p) == [type |-> "FileNotFoundError", path |-> PathStr(p)]

IsFile(p) == p \in DOMAIN fs

\* ------------------------------------------------------------------------
\* extract_sprites
\* ------------------------------------------------------------------------
\* Lines 104-106: load the manifest and open the atlas.
ExtractBegin ==
    /\ pc = "extract"
    /\ frames' = load_metadata(data).frames
    /\ IF IsFile(call.atlas_path)
       THEN /\ atlas' = ConvertRGBA(fs[call.atlas_path])
            /\ pc' = "extract_loop"
            /\ err' = err
       ELSE /\ atlas' = atlas
            /\ pc' = "failed"
            /\ err' = FileNotFound(call.atlas_path)
    /\ idx' = 1
    /\ UNCHANGED <<argv, character, call, todo, history, data, fs, size, canvas,
                   sprite, sprite_path, stdout>>

\* Lines 108-116: one iteration of the loop over the frames.
ExtractFrame ==
    /\ pc = "extract_loop"
    /\ idx <= Len(frames)
    /\ LET entry == frames[idx]
           frame == entry["frame"]
           cropped == Crop(atlas, frame["x"], frame["y"], frame["w"], frame["h"])
           target == build_sprite_path(call.output_dir, entry["filename"])
       IN  /\ sprite' = cropped
           /\ sprite_path' = target
           /\ fs' = (target :> cropped) @@ fs
           /\ stdout' = Append(stdout, [kind |-> "Extracted",
                                        name |-> entry["filename"],
                                        path |-> PathStr(target)])
    /\ idx' = idx + 1
    /\ UNCHANGED <<argv, character, call, todo, history, data, pc, frames, size,
                   atlas, canvas, err>>

\* The loop is over: extract_sprites returns.
ExtractReturn ==
    /\ pc = "extract_loop"
    /\ idx > Len(frames)
    /\ pc' = "exit"
    /\ UNCHANGED <<argv, character, call, todo, history, data, fs, frames, size,
                   atlas, canvas, idx, sprite, sprite_path, stdout, err>>

\* ------------------------------------------------------------------------
\* apply_sprites
\* ------------------------------------------------------------------------
\* Lines 120-125: load the manifest and establish the canvas.
ApplyBegin ==
    /\ pc = "apply"
    /\ LET md == load_metadata(data)
       IN  /\ frames' = md.frames
           /\ size' = md.size
           /\ IF call.base_path # NoValue
              THEN IF IsFile(call.base_path[1])
                   THEN /\ canvas' = ConvertRGBA(fs[call.base_path[1]])
                        /\ pc' = "apply_loop"
                        /\ err' = err
                   ELSE /\ canvas' = canvas
                        /\ pc' = "failed"
                        /\ err' = FileNotFound(call.base_path[1])
              ELSE /\ canvas' = ImageNew(md.size[1], md.size[2], Zero)
                   /\ pc' = "apply_loop"
                   /\ err' = err
    /\ idx' = 1
    /\ UNCHANGED <<argv, character, call, todo, history, data, fs, atlas, sprite,
                   sprite_path, stdout>>

ApplyFrame_skip_missing ==
    /\ pc = "apply_loop"
    /\ idx <= Len(frames)
    /\ LET entry == frames[idx]
           target == build_sprite_path(call.sprites_dir, entry["filename"])
       IN  /\ sprite_path' = target
           /\ IF ~IsFile(target)
              THEN UNCHANGED <<pc, err, sprite, canvas, stdout>>
              ELSE LET loaded == ConvertRGBA(fs[target])
                       frame == entry["frame"]
                       x == frame["x"]
                       y == frame["y"]
                       w == frame["w"]
                       h == frame["h"]
                       mismatch == ImageSize(loaded) # <<w, h>>
                       fitted == IF mismatch THEN Resize(loaded, w, h)
                                 ELSE loaded
                       warned == IF mismatch
                                 THEN Append(stdout,
                                        [kind |-> "Warning",
                                         path |-> PathStr(target),
                                         size |-> ImageSize(loaded),
                                         frame |-> <<w, h>>])
                                 ELSE stdout
                   IN  /\ sprite' = fitted
                       /\ canvas' = Paste(canvas, fitted, x, y)
                       /\ stdout' = Append(warned,
                                        [kind |-> "Applied",
                                         path |-> PathStr(target),
                                         at |-> <<x, y>>])
                       /\ UNCHANGED <<pc, err>>
    /\ idx' = idx + 1
    /\ UNCHANGED <<argv, character, call, todo, history, data, fs, frames, size,
                   atlas>>

\* Lines 127-145: one iteration of the loop over the frames.
ApplyFrame ==
    /\ pc = "apply_loop"
    /\ idx <= Len(frames)
    /\ LET entry == frames[idx]
           target == build_sprite_path(call.sprites_dir, entry["filename"])
       IN  /\ sprite_path' = target
           /\ IF ~IsFile(target)
              THEN /\ pc' = "failed"
                   /\ err' = FileNotFound(target)
                   /\ UNCHANGED <<idx, sprite, canvas, stdout>>
              ELSE LET loaded == ConvertRGBA(fs[target])
                       frame == entry["frame"]
                       x == frame["x"]
                       y == frame["y"]
                       w == frame["w"]
                       h == frame["h"]
                       mismatch == ImageSize(loaded) # <<w, h>>
                       fitted == IF mismatch THEN Resize(loaded, w, h)
                                 ELSE loaded
                       warned == IF mismatch
                                 THEN Append(stdout,
                                        [kind |-> "Warning",
                                         path |-> PathStr(target),
                                         size |-> ImageSize(loaded),
                                         frame |-> <<w, h>>])
                                 ELSE stdout
                   IN  /\ sprite' = fitted
                       /\ canvas' = Paste(canvas, fitted, x, y)
                       /\ stdout' = Append(warned,
                                        [kind |-> "Applied",
                                         path |-> PathStr(target),
                                         at |-> <<x, y>>])
                       /\ idx' = idx + 1
                       /\ UNCHANGED <<pc, err>>
    /\ UNCHANGED <<argv, character, call, todo, history, data, fs, frames, size,
                   atlas>>

\* Lines 147-149: the loop is over, the canvas is saved.
ApplySave ==
    /\ pc = "apply_loop"
    /\ idx > Len(frames)
    /\ fs' = (call.output_path :> canvas) @@ fs
    /\ stdout' = Append(stdout, [kind |-> "Saved",
                                 path |-> PathStr(call.output_path)])
    /\ pc' = "exit"
    /\ UNCHANGED <<argv, character, call, todo, history, data, frames, size, atlas,
                   canvas, idx, sprite, sprite_path, err>>

\* ------------------------------------------------------------------------
\* Inputs: manifests, images and directories
\* ------------------------------------------------------------------------
ManifestPath == Path(<<"atlas", ".", "json">>)
AtlasPath == Path(<<"atlas", ".", "png">>)
OutPath == Path(<<"out", "/", "rebuilt", ".", "png">>)
SpritesDir == Path(<<"sprites">>)

\* An image given by its rows of pixels.
ImageOf(mode, rows) ==
    [mode |-> mode, w |-> Len(rows[1]), h |-> Len(rows),
     px |-> [p \in Grid(Len(rows[1]), Len(rows)) |-> rows[p[2] + 1][p[1] + 1]]]

Red == <<255, 0, 0, 255>>
Green == <<0, 255, 0, 255>>
HalfBlue == <<0, 0, 255, 128>>

\* Atlas images: RGBA with a transparent pixel, and RGB without alpha.
AtlasRGBA == ImageOf("RGBA", <<(<<Red, Green>>), (<<HalfBlue, Zero>>)>>)
AtlasRGB == ImageOf("RGB", <<(<<(<<255, 0, 0>>), (<<0, 0, 255>>)>>)>>)
AtlasImages == {AtlasRGBA, AtlasRGB}

\* Edited sprite images found in the sprites directory.
SpriteClear == ImageOf("RGBA", <<(<<Zero>>)>>)
SpriteQuad == ImageOf("RGBA", <<(<<Green, Zero>>), (<<HalfBlue, Red>>)>>)
SpriteWideRGB == ImageOf("RGB", <<(<<(<<0, 255, 0>>), (<<255, 0, 0>>)>>)>>)
SpriteImages == {SpriteClear, SpriteQuad, SpriteWideRGB}

FrameNames == {<<"a">>, <<"a", ".", "png">>, <<"b">>}
FrameRects == {[x |-> 0, y |-> 0, w |-> 1, h |-> 1],
               [x |-> 1, y |-> 0, w |-> 1, h |-> 1],
               [x |-> 0, y |-> 0, w |-> 2, h |-> 2],
               [x |-> 1, y |-> 1, w |-> 2, h |-> 1]}
FramePool == {[filename |-> n, frame |-> r] : n \in FrameNames, r \in FrameRects}

FrameLists(pool) == UNION {[1 .. n -> pool] : n \in 0 .. MaxFrames}

\* The "meta" part of the manifest: absent, complete, or without "h".
MetaParts == {<<>>,
              "meta" :> [size |-> [w |-> 2, h |-> 2]],
              "meta" :> [size |-> [w |-> 1]]}

Manifests(pool) ==
    {("frames" :> fl) @@ m : fl \in FrameLists(pool), m \in MetaParts}
        \cup {m \in MetaParts : m # <<>>}

SpritePaths == {build_sprite_path(SpritesDir, n) : n \in FrameNames}

\* The directories holding some of the sprite files.
SpriteDirs ==
    UNION {[ps -> SpriteImages] : ps \in SUBSET SpritePaths}

\* The output directory of an extract run: empty, or holding a stale file.
StaleDirs == {<<>>, build_sprite_path(SpritesDir, <<"a">>) :> SpriteQuad}

ApplyCall(base) ==
    [fn |-> "apply", json_path |-> ManifestPath, atlas_path |-> AtlasPath, output_dir |-> SpritesDir,
     sprites_dir |-> SpritesDir, output_path |-> OutPath, base_path |-> base]

ExtractCall ==
    [fn |-> "extract", json_path |-> ManifestPath, atlas_path |-> AtlasPath, output_dir |-> SpritesDir,
     sprites_dir |-> SpritesDir, output_path |-> OutPath,
     base_path |-> NoValue]

NoArgs == [command |-> "none"]

\* The state of a process that has not entered extract_sprites or
\* apply_sprites yet.
FreshLocals ==
    /\ frames = <<>>
    /\ size = <<0, 0>>
    /\ atlas = NoImage
    /\ canvas = NoImage
    /\ idx = 1
    /\ sprite = NoImage
    /\ sprite_path = Path(<<>>)
    /\ stdout = <<>>
    /\ err = NoErr

\* Either apply_sprites is entered on a manifest, a sprites directory and
\* no base or a base that is an atlas image or is missing; or
\* extract_sprites is entered on a manifest and an atlas, to be followed by
\* apply_sprites on the directory it wrote, with the atlas as the base.
Init ==
    /\ argv = NoArgs
    /\ character = NoValue
    /\ history = <<>>
    /\ data \in Manifests(FramePool)
    /\ \/ /\ pc = "apply"
          /\ todo = <<>>
          /\ \E dir \in SpriteDirs :
               \/ /\ call = ApplyCall(NoValue)
                  /\ fs = dir @@ (AtlasPath :> AtlasRGBA)
               \/ /\ call = ApplyCall(Some(AtlasPath))
                  /\ \/ fs = dir
                     \/ \E img \in AtlasImages : fs = dir @@ (AtlasPath :> img)
       \/ /\ pc = "extract"
          /\ call = ExtractCall
          /\ todo = <<ApplyCall(Some(AtlasPath))>>
          /\ \E dir \in StaleDirs :
               \/ fs = dir
               \/ \E img \in AtlasImages : fs = dir @@ (AtlasPath :> img)
    /\ FreshLocals

\* Lines 208-209: the next run of the program enters its command.
NextInvocation ==
    /\ pc = "exit"
    /\ todo # <<>>
    /\ call' = Head(todo)
    /\ todo' = Tail(todo)
    /\ history' = Append(history, call.fn)
    /\ pc' = Head(todo).fn
    /\ frames' = <<>>
    /\ size' = <<0, 0>>
    /\ atlas' = NoImage
    /\ canvas' = NoImage
    /\ idx' = 1
    /\ sprite' = NoImage
    /\ sprite_path' = Path(<<>>)
    /\ stdout' = <<>>
    /\ err' = NoErr
    /\ UNCHANGED <<argv, character, data, fs>>

Next ==
    \/ ExtractBegin
    \/ ExtractFrame
    \/ ExtractReturn
    \/ ApplyBegin
    \/ ApplyFrame
    \/ ApplySave
    \/ NextInvocation

Spec == Init /\ [][Next]_vars

\* ------------------------------------------------------------------------
\* Names of frames: the relative path strings of up to MaxNameLen tokens
\* ------------------------------------------------------------------------
NameTokens == {"a", "png", ".", "/"}

PathNames ==
    {n \in UNION {[1 .. k -> NameTokens] : k \in 1 .. MaxNameLen} : n[1] # "/"}

\* extract_sprites is entered on a one-frame manifest of any name and an
\* empty output directory, to be followed by apply_sprites on that directory.
InitPath ==
    /\ argv = NoArgs
    /\ character = NoValue
    /\ history = <<>>
    /\ \E n \in PathNames :
          data = ("frames" :> <<[filename |-> n,
                                 frame |-> [x |-> 0, y |-> 0, w |-> 1, h |-> 1]]>>)
                    @@ ("meta" :> [size |-> [w |-> 2, h |-> 2]])
    /\ pc = "extract"
    /\ call = ExtractCall
    /\ todo = <<ApplyCall(Some(AtlasPath))>>
    /\ fs = (AtlasPath :> AtlasRGBA)
    /\ FreshLocals

SpecPath == InitPath /\ [][Next]_vars

\* ------------------------------------------------------------------------
\* main and the resolution of its arguments
\* ------------------------------------------------------------------------
Characters == {"matteo", "fede", "stanis", "noa"}

\* Lines 36-57.
CHARACTER_TARGETS ==
    [c \in Characters |->
        [atlas_png |-> <<"assets", "/", "atlas", "/", c, "-atlas", ".", "png">>,
         atlas_json |-> <<"assets", "/", "atlas", "/", c, "-atlas", ".", "json">>,
         sprites_dir |-> <<"sprites_export", "/", c>>]]

\* What the user types at the prompt, and what strip().lower() makes of it.
PromptInputs == {[raw |-> "noa", text |-> "noa"],
                 [raw |-> " Fede ", text |-> "fede"],
                 [raw |-> "bob", text |-> "bob"],
                 [raw |-> "", text |-> ""]}
StripLower(typed) == typed.text

\* An option of the command line: absent, empty, or a path.
ArgValues(opt) == {NoValue, Some(<<>>), Some(<<"cli", "/", opt>>)}

CharacterArgs == {NoValue} \cup {Some(<<c>>) : c \in Characters}

Failed(r) == ~r.ok

\* resolve_path: the argument if given, else the character's preset.
resolve_path(arg_value, who, key, label) ==
    IF Truthy(arg_value) THEN [ok |-> TRUE, path |-> Path(arg_value[1])]
    ELSE IF Truthy(who)
    THEN IF who[1][1] \in DOMAIN CHARACTER_TARGETS
            /\ key \in DOMAIN CHARACTER_TARGETS[who[1][1]]
         THEN [ok |-> TRUE, path |-> Path(CHARACTER_TARGETS[who[1][1]][key])]
         ELSE [ok |-> FALSE, path |-> Path(label)]
    ELSE [ok |-> FALSE, path |-> Path(label)]

ValueError(label) == [type |-> "ValueError", path |-> label]

\* Lines 185-186 and 192-193 with resolve_character: the character is the
\* one given, or is prompted for when a path is missing, or is None.
MainResolveCharacter ==
    /\ pc = "main"
    /\ LET need_defaults ==
              IF argv.command = "extract"
              THEN ~(Truthy(argv.atlas) /\ Truthy(argv.data) /\ Truthy(argv.out))
              ELSE ~(Truthy(argv.data) /\ Truthy(argv.sprites) /\ Truthy(argv.out))
       IN  IF Truthy(argv.character)
           THEN /\ character' = argv.character
                /\ pc' = "resolve"
           ELSE IF need_defaults
           THEN /\ character' = character
                /\ pc' = "prompt"
           ELSE /\ character' = NoValue
                /\ pc' = "resolve"
    /\ UNCHANGED <<argv, call, todo, history, data, fs, frames, size, atlas,
                   canvas, idx, sprite, sprite_path, stdout, err>>

\* prompt_character: one round of the input loop.
PromptCharacter ==
    /\ pc = "prompt"
    /\ \E typed \in PromptInputs :
          IF StripLower(typed) \in DOMAIN CHARACTER_TARGETS
          THEN /\ character' = Some(<<StripLower(typed)>>)
               /\ pc' = "resolve"
               /\ stdout' = stdout
          ELSE /\ Len(stdout) < MaxPrompts
               /\ stdout' = Append(stdout, [kind |-> "Invalid"])
               /\ UNCHANGED <<character, pc>>
    /\ UNCHANGED <<argv, call, todo, history, data, fs, frames, size, atlas,
                   canvas, idx, sprite, sprite_path, err>>

\* Lines 187-190: the paths of extract, and the call of extract_sprites.
MainExtract ==
    /\ pc = "resolve"
    /\ argv.command = "extract"
    /\ LET atlas_path == resolve_path(argv.atlas, character, "atlas_png", <<"--atlas">>)
           data_path == resolve_path(argv.data, character, "atlas_json", <<"--data">>)
           out_path == resolve_path(argv.out, character, "sprites_dir", <<"--out">>)
       IN  IF Failed(atlas_path) \/ Failed(data_path) \/ Failed(out_path)
           THEN /\ pc' = "failed"
                /\ err' = ValueError(IF Failed(atlas_path) THEN <<"--atlas">>
                                     ELSE IF Failed(data_path) THEN <<"--data">>
                                     ELSE <<"--out">>)
                /\ call' = call
           ELSE /\ pc' = "extract"
                /\ err' = err
                /\ call' = [fn |-> "extract", json_path |-> data_path.path,
                            atlas_path |-> atlas_path.path,
                            output_dir |-> out_path.path,
                            sprites_dir |-> Path(<<>>),
                            output_path |-> Path(<<>>),
                            base_path |-> NoValue]
    /\ UNCHANGED <<argv, character, todo, history, data, fs, frames, size,
                   atlas, canvas, idx, sprite, sprite_path, stdout>>

\* Lines 194-203: the paths of apply, the base, and the call of
\* apply_sprites.
MainApply ==
    /\ pc = "resolve"
    /\ argv.command = "apply"
    /\ LET data_path == resolve_path(argv.data, character, "atlas_json", <<"--data">>)
           sprites_path == resolve_path(argv.sprites, character, "sprites_dir", <<"--sprites">>)
           out_path == resolve_path(argv.out, character, "atlas_png", <<"--out">>)
           base_path == IF Truthy(argv.base) THEN Some(Path(argv.base[1]))
                        ELSE IF Truthy(character)
                        THEN Some(Path(CHARACTER_TARGETS[character[1][1]]["atlas_png"]))
                        ELSE NoValue
       IN  IF Failed(data_path) \/ Failed(sprites_path) \/ Failed(out_path)
           THEN /\ pc' = "failed"
                /\ err' = ValueError(IF Failed(data_path) THEN <<"--data">>
                                     ELSE IF Failed(sprites_path) THEN <<"--sprites">>
                                     ELSE <<"--out">>)
                /\ call' = call
           ELSE /\ pc' = "apply"
                /\ err' = err
                /\ call' = [fn |-> "apply", json_path |-> data_path.path,
                            atlas_path |-> Path(<<>>),
                            output_dir |-> Path(<<>>),
                            sprites_dir |-> sprites_path.path,
                            output_path |-> out_path.path,
                            base_path |-> base_path]
    /\ UNCHANGED <<argv, character, todo, history, data, fs, frames, size,
                   atlas, canvas, idx, sprite, sprite_path, stdout>>

\* The command lines argparse accepts (lines 60-80).
CommandLines ==
    {[command |-> "extract", atlas |-> a, data |-> d, out |-> o,
      sprites |-> NoValue, base |-> NoValue, character |-> c] :
        a \in ArgValues("atlas"), d \in ArgValues("data"),
        o \in ArgValues("out"), c \in CharacterArgs}
    \cup
    {[command |-> "apply", atlas |-> NoValue, data |-> d, out |-> o,
      sprites |-> sp, base |-> b, character |-> c] :
        d \in ArgValues("data"), o \in ArgValues("out"),
        sp \in ArgValues("sprites"), b \in ArgValues("base"),
        c \in CharacterArgs}

InitMain ==
    /\ argv \in CommandLines
    /\ character = NoValue
    /\ call = [fn |-> "none"]
    /\ todo = <<>>
    /\ history = <<>>
    /\ data = <<>>
    /\ fs = <<>>
    /\ pc = "main"
    /\ FreshLocals

NextMain ==
    \/ MainResolveCharacter
    \/ PromptCharacter
    \/ MainExtract
    \/ MainApply

SpecMain == InitMain /\ [][NextMain]_vars

\* ------------------------------------------------------------------------
\* Vocabulary of the properties
\* ------------------------------------------------------------------------
SpritePathOf(dir, entry) == build_sprite_path(dir, entry["filename"])

InRect(p, r) == InBox(p, r["x"], r["y"], r["w"], r["h"])

InSomeRect(p, fl) == \E i \in 1 .. Len(fl) : InRect(p, fl[i]["frame"])

RectsDisjoint(r, q) ==
    \/ r["x"] + r["w"] <= q["x"] \/ q["x"] + q["w"] <= r["x"]
    \/ r["y"] + r["h"] <= q["y"] \/ q["y"] + q["h"] <= r["y"]

PairwiseDisjoint(fl) ==
    \A i, j \in 1 .. Len(fl) :
        i # j => RectsDisjoint(fl[i]["frame"], fl[j]["frame"])

SamePathSameRect(fl, dir) ==
    \A i, j \in 1 .. Len(fl) :
        SpritePathOf(dir, fl[i]) = SpritePathOf(dir, fl[j])
            => fl[i]["frame"] = fl[j]["frame"]

DistinctPaths(fl, dir) ==
    \A i, j \in 1 .. Len(fl) :
        i # j => SpritePathOf(dir, fl[i]) # SpritePathOf(dir, fl[j])

\* The record is the last one of the manifest that derives its path.
LastForPath(fl, dir, i) ==
    \A j \in (i + 1) .. Len(fl) :
        SpritePathOf(dir, fl[j]) # SpritePathOf(dir, fl[i])

Lines(kind) == {k \in DOMAIN stdout : stdout[k].kind = kind}

InApply == call.fn = "apply"
InExtract == call.fn = "extract"
ApplyDone == InApply /\ pc = "exit"
ExtractDone == InExtract /\ pc = "exit"
HasBase == call.base_path # NoValue

\* The base image as apply_sprites loads it.
BaseRGBA == ConvertRGBA(fs[AtlasPath])

\* The manifest's declared size, read off the document.
DeclaredW ==
    IF "meta" \in DOMAIN data /\ "w" \in DOMAIN data["meta"]["size"]
    THEN data["meta"]["size"]["w"] ELSE 0
DeclaredH ==
    IF "meta" \in DOMAIN data /\ "h" \in DOMAIN data["meta"]["size"]
    THEN data["meta"]["size"]["h"] ELSE 0

Perms(n) == {f \in [1 .. n -> 1 .. n] : \A i, j \in 1 .. n : f[i] = f[j] => i = j}
Permuted(fl, f) == [i \in 1 .. Len(fl) |-> fl[f[i]]]

\* The canvas after the loop of apply_sprites over fl, all sprites present.
RECURSIVE ApplyAll(_, _, _)
ApplyAll(fl, cv, dir) ==
    IF fl = <<>> THEN cv
    ELSE LET entry == Head(fl)
             r == entry["frame"]
             loaded == ConvertRGBA(fs[SpritePathOf(dir, entry)])
             fitted == IF ImageSize(loaded) # <<r["w"], r["h"]>>
                       THEN Resize(loaded, r["w"], r["h"]) ELSE loaded
         IN  ApplyAll(Tail(fl), Paste(cv, fitted, r["x"], r["y"]), dir)

\* The files written by the loop of extract_sprites over fl.
RECURSIVE ExtractAll(_, _, _, _)
ExtractAll(fl, img, dir, files) ==
    IF fl = <<>> THEN files
    ELSE LET entry == Head(fl)
             r == entry["frame"]
             cropped == Crop(img, r["x"], r["y"], r["w"], r["h"])
         IN  ExtractAll(Tail(fl), img, dir,
                        (SpritePathOf(dir, entry) :> cropped) @@ files)

\* The canvas apply_sprites starts from.
InitialCanvas ==
    IF HasBase THEN BaseRGBA
    ELSE ImageNew(load_metadata(data).size[1], load_metadata(data).size[2], Zero)

\* ------------------------------------------------------------------------
\* C2 - missing sprite
\* ------------------------------------------------------------------------
MissingAt(i) == ~IsFile(SpritePathOf(call.sprites_dir, frames[i]))

BaseLoaded == ~HasBase \/ IsFile(call.base_path[1])

C2_State ==
    /\ ApplyDone => \A i \in 1 .. Len(frames) : ~MissingAt(i)
    /\ (InApply /\ pc = "apply_loop") =>
          \A i \in 1 .. (idx - 1) : i <= Len(frames) => ~MissingAt(i)
    /\ (InApply /\ pc = "failed" /\ BaseLoaded) =>
          /\ idx \in 1 .. Len(frames)
          /\ MissingAt(idx)
          /\ err = [type |-> "FileNotFoundError",
                    path |-> PathStr(SpritePathOf(call.sprites_dir, frames[idx]))]
          /\ Cardinality(Lines("Applied")) = idx - 1
          /\ Lines("Saved") = {}
          /\ ~IsFile(call.output_path)

\* C2: when a frame's derived sprite path is not an existing file,
\* apply_sprites fails with a missing-sprite error naming that path; it
\* succeeds only if no frame's sprite is missing; the frames after the
\* failing one are not processed and the output atlas is not written: no
\* step is taken from the failed state.
C2_MissingSpriteFatal == [](C2_State) /\ [][pc # "failed"]_vars

\* A run that failed on a missing sprite with a frame left for processing.
C2_Witness ==
    /\ InApply /\ pc = "failed" /\ BaseLoaded
    /\ idx < Len(frames)
    /\ ~MissingAt(idx + 1)

\* ------------------------------------------------------------------------
\* C3 - size mismatch
\* ------------------------------------------------------------------------
C3_Step ==
    (InApply /\ pc = "apply_loop" /\ idx' = idx + 1) =>
        LET entry == frames[idx]
            r == entry["frame"]
            loaded == ConvertRGBA(fs[SpritePathOf(call.sprites_dir, entry)])
            n == Len(stdout)
        IN  /\ pc' = "apply_loop" /\ err' = NoErr
            /\ ImageSize(sprite') = <<r["w"], r["h"]>>
            /\ \A p \in DOMAIN canvas.px :
                  InRect(p, r) =>
                      canvas'.px[p] = sprite'.px[<<p[1] - r["x"], p[2] - r["y"]>>]
            /\ IF ImageSize(loaded) # <<r["w"], r["h"]>>
               THEN /\ Len(stdout') = n + 2
                    /\ stdout'[n + 1].kind = "Warning"
                    /\ stdout'[n + 1].size = ImageSize(loaded)
                    /\ stdout'[n + 2].kind = "Applied"
               ELSE /\ Len(stdout') = n + 1
                    /\ stdout'[n + 1].kind = "Applied"
                    /\ sprite' = loaded

\* C3: a sprite whose size differs from the frame's (w, h) gives a warning,
\* is resized to exactly (w, h) and pasted, and the loop goes on without
\* failing; a sprite of the right size is pasted unchanged, without warning.
C3_MismatchResize == [][C3_Step]_vars

\* A run that finished after a warning for a 2x2 sprite in a 1x1 frame.
C3_Witness ==
    /\ ApplyDone
    /\ \E k \in Lines("Warning") :
          stdout[k].size = <<2, 2>> /\ stdout[k].frame = <<1, 1>>
    /\ \E k \in Lines("Applied") : k > 1 /\ stdout[k - 1].kind = "Applied"

\* ------------------------------------------------------------------------
\* C4 - default canvas
\* ------------------------------------------------------------------------
\* C4: without a base image the output has the manifest's declared width
\* and height, 0 where not declared, and every pixel in no frame rectangle
\* has its four channels zero.
C4_DefaultCanvas ==
    (ApplyDone /\ ~HasBase) =>
        LET out == fs[call.output_path]
        IN  /\ ImageSize(out) = <<DeclaredW, DeclaredH>>
            /\ DOMAIN out.px = Grid(DeclaredW, DeclaredH)
            /\ \A p \in DOMAIN out.px :
                  ~InSomeRect(p, frames) => out.px[p] = Zero

\* A 2x2 output with a pasted pixel that is not zero and an untouched one.
C4_Witness ==
    /\ ApplyDone /\ ~HasBase
    /\ ImageSize(fs[call.output_path]) = <<2, 2>>
    /\ \E p, q \in DOMAIN fs[call.output_path].px :
          /\ InSomeRect(p, frames) /\ fs[call.output_path].px[p] # Zero
          /\ ~InSomeRect(q, frames)

\* A run on a manifest without size metadata that wrote an empty image.
C4_WitnessNoMeta ==
    /\ ApplyDone /\ ~HasBase
    /\ "meta" \notin DOMAIN data
    /\ Len(frames) > 0
    /\ ImageSize(fs[call.output_path]) = <<0, 0>>

\* ------------------------------------------------------------------------
\* C8 - paste overwrites
\* ------------------------------------------------------------------------
C8_Step ==
    (InApply /\ pc = "apply_loop" /\ idx' = idx + 1) =>
        LET r == frames[idx]["frame"]
        IN  \A p \in DOMAIN canvas.px :
                InBox(p, r["x"], r["y"], sprite'.w, sprite'.h) =>
                    \A c \in 1 .. 4 :
                        canvas'.px[p][c] =
                            sprite'.px[<<p[1] - r["x"], p[2] - r["y"]>>][c]

\* C8: after a frame is pasted at (x, y), every canvas pixel inside the
\* frame's rectangle equals the (possibly resized) sprite's pixel in all
\* four channels, alpha included, whatever the canvas held before.
C8_PasteOverwrites == [][C8_Step]_vars

\* A transparent sprite pixel has replaced an opaque pixel of the base.
C8_Witness ==
    /\ InApply /\ HasBase /\ pc = "apply_loop" /\ idx = 2
    /\ \E p \in DOMAIN canvas.px :
          /\ InRect(p, frames[1]["frame"])
          /\ BaseRGBA.px[p][4] = 255
          /\ canvas.px[p] = Zero

\* ------------------------------------------------------------------------
\* C9 - compose with a base
\* ------------------------------------------------------------------------
\* C9: with a base image the canvas, and the output written from it, has
\* the base's width and height whatever the manifest declares, and every
\* pixel outside the rectangles of the frames pasted so far is the base's.
C9_BaseFrameEffect ==
    (InApply /\ HasBase /\ pc \in {"apply_loop", "exit"}) =>
        /\ ImageSize(canvas) = ImageSize(fs[AtlasPath])
        /\ DOMAIN canvas.px = Grid(fs[AtlasPath].w, fs[AtlasPath].h)
        /\ \A p \in DOMAIN canvas.px :
              ~InSomeRect(p, SubSeq(frames, 1, idx - 1)) =>
                  canvas.px[p] = BaseRGBA.px[p]
        /\ pc = "exit" => fs[call.output_path] = canvas

\* An output of another size than declared, with a frame reaching over the
\* base's edge, a changed pixel and an untouched one.
C9_Witness ==
    /\ ApplyDone /\ HasBase
    /\ ImageSize(fs[call.output_path]) # <<DeclaredW, DeclaredH>>
    /\ \E i \in 1 .. Len(frames) :
          frames[i]["frame"]["x"] + frames[i]["frame"]["w"] > canvas.w
    /\ \E p, q \in DOMAIN canvas.px :
          /\ canvas.px[p] # BaseRGBA.px[p]
          /\ ~InSomeRect(q, frames)

\* ------------------------------------------------------------------------
\* C6 - order of the frame records
\* ------------------------------------------------------------------------
ApplyOrderFree ==
    \A f \in Perms(Len(frames)) :
        ApplyAll(Permuted(frames, f), InitialCanvas, call.sprites_dir) = canvas

ExtractOrderFree ==
    \A f \in Perms(Len(frames)) :
        LET written == ExtractAll(Permuted(frames, f), BaseRGBA,
                                  call.output_dir, <<>>)
        IN  \A q \in DOMAIN written : fs[q] = written[q]

\* C6 as stated: any permutation of the frame records gives the same
\* output image and the same sprite files, also with overlapping
\* rectangles and with records deriving the same sprite path.
C6_OrderInsignificant ==
    /\ ApplyDone => ApplyOrderFree
    /\ ExtractDone => ExtractOrderFree

\* C6 as amended: apply_sprites gives the same output for any permutation
\* of a manifest whose frame rectangles are pairwise disjoint, and
\* extract_sprites leaves the same files for any permutation of a manifest
\* whose records deriving the same sprite path have the same rectangle.
C6_OrderInsignificantDisjoint ==
    /\ (ApplyDone /\ PairwiseDisjoint(frames)) => ApplyOrderFree
    /\ (ExtractDone /\ SamePathSameRect(frames, call.output_dir))
          => ExtractOrderFree

\* Two disjoint frames were pasted from different sprites.
C6_Witness ==
    /\ ApplyDone /\ Len(frames) = 2 /\ PairwiseDisjoint(frames)
    /\ fs[SpritePathOf(call.sprites_dir, frames[1])]
          # fs[SpritePathOf(call.sprites_dir, frames[2])]
    /\ canvas # InitialCanvas

\* ------------------------------------------------------------------------
\* C10 - result of extract
\* ------------------------------------------------------------------------
\* The file is the crop of the record's rectangle out of the atlas.
IsCropOf(file, r) ==
    /\ file.mode = "RGBA"
    /\ ImageSize(file) = <<r["w"], r["h"]>>
    /\ DOMAIN file.px = Grid(r["w"], r["h"])
    /\ \A p \in DOMAIN file.px :
          IF r["x"] + p[1] < BaseRGBA.w /\ r["y"] + p[2] < BaseRGBA.h
          THEN file.px[p] = BaseRGBA.px[<<r["x"] + p[1], r["y"] + p[2]>>]
          ELSE file.px[p] = Zero

WrittenPaths == {SpritePathOf(call.output_dir, frames[i]) : i \in 1 .. Len(frames)}

\* C10 as stated: a successful extract_sprites run over n records leaves
\* n files, and the file of each record is the crop of its rectangle.
C10_ExtractResult ==
    ExtractDone =>
        /\ Cardinality(WrittenPaths) = Len(frames)
        /\ \A i \in 1 .. Len(frames) :
              /\ IsFile(SpritePathOf(call.output_dir, frames[i]))
              /\ IsCropOf(fs[SpritePathOf(call.output_dir, frames[i])],
                          frames[i]["frame"])

\* C10 as amended: a successful run leaves one file per distinct derived
\* sprite path, and the file of each record that is the last one deriving
\* its path is the crop of that record's rectangle, of size (w, h).
C10_ExtractResultLastWins ==
    ExtractDone =>
        /\ Cardinality(Lines("Extracted")) = Len(frames)
        /\ {stdout[k].path : k \in Lines("Extracted")}
              = {PathStr(q) : q \in WrittenPaths}
        /\ \A i \in 1 .. Len(frames) :
              /\ IsFile(SpritePathOf(call.output_dir, frames[i]))
              /\ LastForPath(frames, call.output_dir, i) =>
                    IsCropOf(fs[SpritePathOf(call.output_dir, frames[i])],
                             frames[i]["frame"])

\* Two records with distinct paths were extracted, one reaching over the
\* atlas's edge, over a stale file of another size.
C10_Witness ==
    /\ ExtractDone /\ Len(frames) = 2
    /\ DistinctPaths(frames, call.output_dir)
    /\ \E i \in 1 .. 2 : frames[i]["frame"]["x"] + frames[i]["frame"]["w"] > BaseRGBA.w
    /\ \E i \in 1 .. 2 : frames[i]["frame"]["x"] = 0

\* ------------------------------------------------------------------------
\* C1 - round trip
\* ------------------------------------------------------------------------
RoundTripDone == ApplyDone /\ history = <<"extract">>

RoundTripExact ==
    LET out == fs[call.output_path]
    IN  /\ ImageSize(out) = ImageSize(BaseRGBA)
        /\ \A p \in DOMAIN BaseRGBA.px :
              InSomeRect(p, frames) =>
                  \A c \in 1 .. 4 : out.px[p][c] = BaseRGBA.px[p][c]

\* C1 as stated: for every manifest and base B, extract_sprites on B into D
\* and then apply_sprites from D with base B gives an output whose pixels
\* inside any frame rectangle and inside B's bounds equal B's.
C1_RoundTrip == RoundTripDone => RoundTripExact

\* C1 as amended: the same, for every manifest in which any two records
\* deriving the same sprite path have the same frame rectangle.
C1_RoundTripSamePathSameRect ==
    (RoundTripDone /\ SamePathSameRect(frames, call.sprites_dir))
        => RoundTripExact

\* A round trip over two overlapping frames, one reaching over B's edge.
C1_Witness ==
    /\ RoundTripDone /\ Len(frames) = 2
    /\ SamePathSameRect(frames, call.sprites_dir)
    /\ ~PairwiseDisjoint(frames)
    /\ frames[1]["frame"] # frames[2]["frame"]
    /\ \E i \in 1 .. 2 : frames[i]["frame"]["x"] + frames[i]["frame"]["w"] > BaseRGBA.w

\* ------------------------------------------------------------------------
\* C5 - naming rule
\* ------------------------------------------------------------------------
\* The name's final component has a dot that neither starts nor ends it and
\* is its last dot.
RECURSIVE LastSlash(_, _)
LastSlash(n, i) ==
    IF i = 0 THEN 0 ELSE IF n[i] = "/" THEN i ELSE LastSlash(n, i - 1)

HasExtension(n) ==
    LET from == LastSlash(n, Len(n)) + 1
        dots == {i \in from .. Len(n) : n[i] = "."}
    IN  /\ dots # {}
        /\ \A j \in dots : \E i \in dots : i >= j /\ i > from /\ i < Len(n)

\* The string of the sprite path of name under root, by the naming rule
\* applied to the name as pathlib writes it.
RulePath(root, name) ==
    LET n == PathStr(Path(name))
    IN  PathStr(root) \o <<"/">> \o n
            \o (IF HasExtension(n) THEN <<>> ELSE DotPng)

\* C5: the sprite path is root/name when the name has a file-extension
\* suffix and root/(name + ".png") otherwise, in extract_sprites and in
\* apply_sprites alike, so that apply_sprites finds under the same root
\* the file extract_sprites wrote for the name.
C5_NamingRule ==
    /\ \A k \in Lines("Extracted") :
          stdout[k].path = RulePath(call.output_dir, stdout[k].name)
    /\ (InExtract /\ pc \in {"extract_loop", "exit"} /\ idx > 1) =>
          /\ PathStr(sprite_path) = RulePath(call.output_dir, frames[idx - 1]["filename"])
          /\ IsFile(sprite_path)
    /\ (InApply /\ pc \in {"apply_loop", "exit"} /\ idx > 1) =>
          /\ PathStr(sprite_path) = RulePath(call.sprites_dir, frames[idx - 1]["filename"])
          /\ IsFile(sprite_path)
    /\ (InApply /\ history = <<"extract">>) => pc # "failed"

\* apply_sprites has read the sprite that extract_sprites wrote for a name
\* in a subdirectory and without a suffix.
C5_Witness ==
    /\ ApplyDone /\ history = <<"extract">>
    /\ frames[1]["filename"] = <<"a", "/", "a">>
    /\ PathStr(sprite_path) = <<"sprites", "/", "a", "/", "a", ".", "png">>

\* apply_sprites has read the sprite of a name that has a suffix.
C5_WitnessSuffix ==
    /\ ApplyDone /\ history = <<"extract">>
    /\ frames[1]["filename"] = <<"a", ".", "png">>
    /\ PathStr(sprite_path) = <<"sprites", "/", "a", ".", "png">>

\* ------------------------------------------------------------------------
\* C7 - the base of the apply command
\* ------------------------------------------------------------------------
\* C7: when apply is run without --base, main passes no base image to
\* apply_sprites, so that the atlas is rebuilt from a transparent canvas,
\* also when --character is given or prompted for.
C7_NoBaseMeansTransparent ==
    (pc = "apply" /\ argv.command = "apply" /\ argv.base = NoValue)
        => call.base_path = NoValue

====
